---- MODULE Spec2Model ----
(***************************************************************************)
(* Upload functions of nagito-hiroshima/pool, modelled as a state machine. *)
(*                                                                         *)
(* The remote repository (refs, commits, trees, blobs) is shared state.    *)
(* Two kinds of callers act on it:                                         *)
(*   - the upload handler onRequestPost of src/unnamed/part_001, which     *)
(*     resolves the path, reads content.json, builds the change-set and    *)
(*     calls its commitFilesAtomically (the version with the retry loop);  *)
(*   - commitFilesAtomically of src/unnamed/part_000 (the version without  *)
(*     a retry loop), called as its usage comment shows.                   *)
(* Every fetch is one step; other callers may act between two steps.       *)
(***************************************************************************)
EXTENDS Naturals, Integers, Sequences, FiniteSets, TLC

VARIABLES
    ref,      \* the branch ref: the identifier of the head commit
    commits,  \* the commit objects of the remote, identifier = index
    blobs,    \* the blob objects of the remote (content-addressed)
    proc,     \* per caller: position in the code and local variables
    prevVer,  \* bumpVersion on its own: the value it is given
    bumped    \* ... and the text it returned (<<>> before the call)

vars == <<ref, commits, blobs, proc, prevVer, bumped>>

(***************************** bounds **************************************)
NumProcs == 2        \* concurrent callers
MaxCommits == 4      \* commit objects the remote holds (the initial one included)
MaxClock == 2        \* instants the clock shows (milliseconds, counted from 1)
MaxVerLen == 3       \* characters of a version text given to bumpVersion

Procs == 1..NumProcs

(************************ program constants ********************************)
MaxAttempts == 3     \* for (let attempt = 1; attempt <= 3; attempt++)
RetryUnit == 200     \* setTimeout(r, 200 * attempt)

contentPath == "content.json"

(***************************** contents ************************************)
\* A blob is identified by its content (content addressing), so the model uses
\* the content itself as the blob identifier.
Raw(b) == [kind |-> "raw", bytes |-> b, version |-> <<>>, files |-> <<>>]
Doc(v, fs) == [kind |-> "json", bytes |-> "", version |-> v, files |-> fs]
NoBlob == [kind |-> "none", bytes |-> "", version |-> <<>>, files |-> <<>>]
\* A file whose text is the JSON value null.
JsonNull == [kind |-> "null", bytes |-> "", version |-> <<>>, files |-> <<>>]

\* The text String(v) gives for a version value; undefined and null are one value.
Undefined == <<"undefined">>

(****************************** paths **************************************)
Dirs == {"", "images"}
Names == {"a.png"}

\* The (dir, finalName, file.type) of the requests: an image at the root, an image
\* in a directory, and a file without declared type at the root whose name is
\* also the name of a directory.
Inputs ==
    {<<d, n, "image/png">> : d \in Dirs, n \in Names} \cup {<<"", "images", "">>}

\* Date.now() shows one of these instants.
Times == 1..MaxClock
\* Math.random().toString(36).slice(2, 6)
Rands == {"k3x9"}

Base36Chars ==
    <<"0", "1", "2", "3", "4", "5", "6", "7", "8", "9", "a", "b", "c", "d", "e", "f",
      "g", "h", "i", "j", "k", "l", "m", "n", "o", "p", "q", "r", "s", "t", "u", "v",
      "w", "x", "y", "z">>

\* n.toString(36)
RECURSIVE Base36(_)
Base36(n) ==
    IF n < 36 THEN Base36Chars[n + 1]
    ELSE Base36(n \div 36) \o Base36Chars[(n % 36) + 1]

\* A prefix that does not hold the instant.
uniquePrefixNoTime(t, r) == "0" \o "-" \o r

\* uniquePrefix(): `${t}-${r}`, t the instant and r the random text
uniquePrefix(t, r) == Base36(t) \o "-" \o r

Prefixes == {uniquePrefix(t, r) : t \in Times, r \in Rands}

\* dir ? `${dir}/${targetName}` : targetName
JoinPath(dir, name) == IF dir = "" THEN name ELSE dir \o "/" \o name

\* `${uniquePrefix()}-${finalName}`
UniqueName(prefix, name) == prefix \o "-" \o name

OtherPath == "other.txt"

AllPaths ==
    {contentPath, OtherPath}
      \cup {JoinPath(i[1], i[2]) : i \in Inputs}
      \cup {JoinPath(i[1], UniqueName(u, i[2])) : i \in Inputs, u \in Prefixes}

\* The paths directly under the directory d.
PathsUnder(d) ==
    {JoinPath(i[1], i[2]) : i \in {j \in Inputs : j[1] = d}}
      \cup {JoinPath(i[1], UniqueName(u, i[2])) : i \in {j \in Inputs : j[1] = d},
                                                  u \in Prefixes}

\* path names a directory of the tree: some file lies under it.
IsDirectory(tree, path) ==
    /\ path \in Dirs \ {""}
    /\ \E q \in PathsUnder(path) : tree[q] # NoBlob

EmptyTree == [p \in AllPaths |-> NoBlob]

(************************** version bump ***********************************)
DigitChars == <<"0", "1", "2", "3", "4", "5", "6", "7", "8", "9">>
IsDigit(c) == \E i \in 1..10 : DigitChars[i] = c
DigitVal(c) == (CHOOSE i \in 1..10 : DigitChars[i] = c) - 1

RECURSIVE TrimLeft(_)
TrimLeft(s) == IF s # <<>> /\ Head(s) = " " THEN TrimLeft(Tail(s)) ELSE s
RECURSIVE TrimRight(_)
TrimRight(s) ==
    IF s # <<>> /\ s[Len(s)] = " " THEN TrimRight(SubSeq(s, 1, Len(s) - 1)) ELSE s
\* String(v).trim()
Trim(s) == TrimRight(TrimLeft(s))

AllDigits(s) == s # <<>> /\ \A i \in 1..Len(s) : IsDigit(s[i])

\* Number("<digits>")
RECURSIVE NumberOf(_)
NumberOf(s) ==
    IF s = <<>> THEN 0 ELSE 10 * NumberOf(SubSeq(s, 1, Len(s) - 1)) + DigitVal(s[Len(s)])

\* `${n}` for a natural number
RECURSIVE DecimalOf(_)
DecimalOf(n) ==
    IF n < 10 THEN <<DigitChars[n + 1]>>
    ELSE DecimalOf(n \div 10) \o <<DigitChars[(n % 10) + 1]>>

\* The positions of "." in s
Dots(s) == {i \in 1..Len(s) : s[i] = "."}

\* s.match(/^(\d+)(?:\.(\d+))?$/): the pair <<m[1], m[2]>> (m[2] = <<>> when the
\* group did not take part), or <<>> when there is no match.
VersionMatch(s) ==
    IF AllDigits(s) THEN <<s, <<>>>>
    ELSE IF Cardinality(Dots(s)) = 1
         THEN LET d == CHOOSE i \in Dots(s) : TRUE
                  a == SubSeq(s, 1, d - 1)
                  b == SubSeq(s, d + 1, Len(s))
              IN  IF AllDigits(a) /\ AllDigits(b) THEN <<a, b>> ELSE <<>>
         ELSE <<>>

\* A minor that is not raised.
BumpedMinorSame(minor) == minor

\* minor + 1
BumpedMinor(minor) == minor + 1

bumpVersion(v) ==
    IF v = Undefined THEN <<"1", ".", "1">>
    ELSE LET m == VersionMatch(Trim(v))
         IN  IF m = <<>> THEN <<"1", ".", "1">>
             ELSE LET major == NumberOf(m[1])
                      minor == IF m[2] = <<>> THEN 0 ELSE NumberOf(m[2])
                  IN  DecimalOf(major) \o <<".">> \o DecimalOf(BumpedMinor(minor))

(************************ manifest (content.json) **************************)
\* dir ? `/${dir.replace(/^\/+|\/+$/g, "")}` : "/"   (dir is already trimmed of "/")
NormDir(dir) == IF dir = "" THEN "/" ELSE "/" \o dir

\* file.type || null
TypeOrNull(type) == IF type = "" THEN "null" ELSE type

\* An entry whose path leaves out the directory.
EntryAtRoot(dir, targetName, type, at) ==
    [dir |-> NormDir(dir),
     name |-> targetName,
     path |-> "/" \o targetName,
     type |-> type,
     description |-> "",
     uploaded_at |-> at]

\* The entry appended for an upload; uploaded_at is the request's instant, for
\* which the model uses the caller's number.
Entry(dir, targetName, type, at) ==
    [dir |-> NormDir(dir),
     name |-> targetName,
     path |-> IF NormDir(dir) = "/" THEN "/" \o targetName
              ELSE NormDir(dir) \o "/" \o targetName,
     type |-> type,
     description |-> "",
     uploaded_at |-> at]

\* { version: 1, generated_at: ..., files: [] }
DefaultManifest == Doc(<<"1">>, <<>>)

\* JSON.parse(decoded) inside try/catch: bytes that are no JSON give the default;
\* the text null parses, to the value null.
ParseManifest(blob) ==
    IF blob.kind \in {"json", "null"} THEN blob ELSE DefaultManifest

\* if (!Array.isArray(contentObj.files)) ...: reading a property of null throws a
\* TypeError.
FilesReadThrows(obj) == obj.kind = "null"

\* files.unshift(entry); version = bumpVersion(version)
UpdatedManifest(obj, entry) == Doc(bumpVersion(obj.version), <<entry>> \o obj.files)

\* An object literal with the computed keys k1, k2 in this order: a repeated key
\* keeps its first position and its last value.
ObjectLiteral(k1, v1, k2, v2) ==
    IF k1 = k2 THEN <<[path |-> k1, content |-> v2]>>
    ELSE <<[path |-> k1, content |-> v1], [path |-> k2, content |-> v2]>>

KeysOf(files) == {files[i].path : i \in 1..Len(files)}

(**************************** the remote ***********************************)
HeadTree == commits[ref].tree

\* POST /git/trees: the base tree (when one is named) with each listed path
\* replaced or added, every other path inherited.
RemoteCreateTree(req) ==
    [p \in AllPaths |->
        IF \E i \in 1..Len(req.tree) : req.tree[i].path = p
        THEN req.tree[CHOOSE i \in 1..Len(req.tree) : req.tree[i].path = p].sha
        ELSE IF req.hasBase THEN req.base_tree[p] ELSE NoBlob]

\* PATCH /git/refs/heads/<branch>: without force the update is accepted only when
\* the new commit's parent is the ref's current value.
RemoteAcceptsUpdate(body) ==
    \/ body.force
    \/ /\ commits[body.sha].parents # <<>>
       /\ commits[body.sha].parents[1] = ref

\* GET /contents/<path>?ref=<branch> answers 200 for a file (an object) and for a
\* directory (a list), 404 otherwise.
RemoteContentsOk(path) == HeadTree[path] # NoBlob \/ IsDirectory(HeadTree, path)

(*********************** request bodies of the pipeline ********************)
\* Object.keys(files).map(p => ({ path, mode, type: "blob", sha: blobMap[p] }))
TreeEntries000(files) ==
    [i \in 1..Len(files) |->
        [path |-> files[i].path, mode |-> "100644", type |-> "blob",
         sha |-> files[i].content]]

\* A tree request that names no base tree.
TreeRequestNoBase(baseTree, files) ==
    [thrown |-> FALSE, hasBase |-> FALSE, base_tree |-> EmptyTree,
     tree |-> TreeEntries000(files)]

\* part_000: { base_tree: baseTree, tree: treeEntries }
TreeRequest000(baseTree, files) ==
    [thrown |-> FALSE, hasBase |-> TRUE, base_tree |-> baseTree,
     tree |-> TreeEntries000(files)]

\* The names declared in the scope of part_001's commitFilesAtomically when the
\* body of the tree request is evaluated.
Scope001 ==
    {"apiBase", "repo", "branch", "files", "message", "token", "headers", "attempt",
     "refRes", "refJson", "parentSha", "commitRes", "commitJson", "baseTree", "blobMap"}

\* The names the expression { base_tree: base_tree, tree: treeEntries } reads.
TreeBodyNames001 == {"base_tree", "treeEntries"}

\* part_001: { base_tree: base_tree, tree: treeEntries }. Reading a name that is
\* not declared throws a ReferenceError before the request is sent.
TreeRequest(baseTree, files) ==
    IF TreeBodyNames001 \subseteq Scope001
    THEN [thrown |-> FALSE, hasBase |-> TRUE, base_tree |-> baseTree,
          tree |-> TreeEntries000(files)]
    ELSE [thrown |-> TRUE, hasBase |-> FALSE, base_tree |-> EmptyTree, tree |-> <<>>]

\* A commit request that names no parent.
CommitBodyOrphan(newTreeSha, parentSha) == [tree |-> newTreeSha, parents |-> <<>>]

\* { message, tree: newTreeSha, parents: [parentSha] }
CommitBody(newTreeSha, parentSha) == [tree |-> newTreeSha, parents |-> <<parentSha>>]

\* A ref update that is forced.
UpdateRefBodyForce(newCommitSha) == [sha |-> newCommitSha, force |-> TRUE]

\* { sha: newCommitSha }: no force flag
UpdateRefBody(newCommitSha) == [sha |-> newCommitSha, force |-> FALSE]

(***************************** callers *************************************)
InitProc ==
    [pc |-> "idle", ver |-> 0,
     dir |-> "", finalName |-> "", targetName |-> "", safePath |-> "",
     overwrite |-> FALSE, bytes |-> "", type |-> "",
     files |-> <<>>, attempt |-> 0, parentSha |-> 0, baseTree |-> EmptyTree,
     nblobs |-> 0, newTreeSha |-> EmptyTree, newCommitSha |-> 0,
     status |-> 0,
     \* the handlers that write through the contents API
     sha |-> NoBlob, respPath |-> "", mpc |-> "", contentSha |-> NoBlob,
     contentObj |-> NoBlob,
     \* history, read by the properties only
     puts |-> <<>>, mputs |-> <<>>, mseen |-> NoBlob,
     stamp |-> 0, after |-> {}, dirAt |-> FALSE, seen |-> "",
     reads |-> 0, delays |-> <<>>, failedAt |-> {}, contendedAt |-> {},
     conflictAt |-> {}, staleAt |-> {}, moves |-> 0, lost |-> FALSE]

InPipeline(q) ==
    proc[q].pc \in {"readHead", "readTree", "blobs", "tree", "commit", "update", "caught"}

\* q has read the head in its current attempt and the attempt is still running.
AfterReadHead(q) ==
    proc[q].pc \in {"readTree", "blobs", "tree", "commit", "update"}

\* The ref moved: the callers inside the pipeline are marked as contended in their
\* current attempt, and as stale when they had already read the head in it.
MarkContended(mover, pr) ==
    [q \in Procs |->
        IF q # mover /\ InPipeline(q)
        THEN [pr[q] EXCEPT !.contendedAt = @ \cup {pr[q].attempt},
                           !.staleAt = IF AfterReadHead(q)
                                       THEN @ \cup {pr[q].attempt} ELSE @]
        ELSE pr[q]]

OldEntry == Entry("images", "a.png", "image/png", 0)

InitTrees ==
    {EmptyTree,
     [EmptyTree EXCEPT !["images/a.png"] = Raw("old"),
                       !["a.png"] = Raw("old"),
                       ![OtherPath] = Raw("o"),
                       ![contentPath] = Doc(<<"2", ".", "1">>, <<OldEntry>>)],
     [EmptyTree EXCEPT ![contentPath] = JsonNull]}

Init ==
    /\ ref = 1
    /\ \E t \in InitTrees : commits = <<[tree |-> t, parents |-> <<>>, by |-> 0]>>
    /\ blobs = {}
    /\ proc = [p \in Procs |-> InitProc]
    /\ prevVer = Undefined
    /\ bumped = <<>>

(************************* steps shared by both versions *******************)
\* Where an exception thrown inside the pipeline goes: to the catch clause of the
\* retry loop in part_001, out of the function in part_000.
ThrowTo(p) == IF proc[p].ver = 2 THEN "caught" ELSE "thrown"

RemoteFailure(p) ==
    [proc[p] EXCEPT !.pc = ThrowTo(p), !.failedAt = @ \cup {proc[p].attempt}]

\* 1) ref -> commit sha
ReadHead(p) ==
    /\ proc[p].pc = "readHead"
    /\ \/ proc' = [proc EXCEPT ![p].parentSha = ref, ![p].reads = @ + 1,
                               ![p].pc = "readTree"]
       \/ proc' = [proc EXCEPT ![p] = [RemoteFailure(p) EXCEPT !.reads = @ + 1]]
    /\ UNCHANGED <<ref, commits, blobs, prevVer, bumped>>

\* 2) get parent commit -> base tree
ReadBaseTree(p) ==
    /\ proc[p].pc = "readTree"
    /\ \/ proc' = [proc EXCEPT ![p].baseTree = commits[proc[p].parentSha].tree,
                               ![p].nblobs = 0,
                               ![p].pc = "blobs"]
       \/ proc' = [proc EXCEPT ![p] = RemoteFailure(p)]
    /\ UNCHANGED <<ref, commits, blobs, prevVer, bumped>>

\* 3) create blobs for each file: one iteration of the loop
CreateBlob(p) ==
    /\ proc[p].pc = "blobs"
    /\ proc[p].nblobs < Len(proc[p].files)
    /\ \/ /\ blobs' = blobs \cup {proc[p].files[proc[p].nblobs + 1].content}
          /\ proc' = [proc EXCEPT ![p].nblobs = @ + 1,
                                  ![p].pc = IF proc[p].nblobs + 1 = Len(proc[p].files)
                                            THEN "tree" ELSE "blobs"]
       \/ /\ proc' = [proc EXCEPT ![p] = RemoteFailure(p)]
          /\ UNCHANGED blobs
    /\ UNCHANGED <<ref, commits, prevVer, bumped>>

\* The body of the tree request, as each version writes it.
TreeRequestOf(p) ==
    IF proc[p].ver = 2 THEN TreeRequest(proc[p].baseTree, proc[p].files)
    ELSE TreeRequest000(proc[p].baseTree, proc[p].files)

\* 4) create new tree with entries
CreateTree(p) ==
    /\ proc[p].pc = "tree"
    /\ LET req == TreeRequestOf(p)
       IN  IF req.thrown
           THEN proc' = [proc EXCEPT ![p].pc = ThrowTo(p)]
           ELSE \/ proc' = [proc EXCEPT ![p].newTreeSha = RemoteCreateTree(req),
                                        ![p].pc = "commit"]
                \/ proc' = [proc EXCEPT ![p] = RemoteFailure(p)]
    /\ UNCHANGED <<ref, commits, blobs, prevVer, bumped>>

\* A commit request that also moves the branch to the new commit, as a write
\* through the contents API does.
CreateCommitMovingRef(p) ==
    /\ proc[p].pc = "commit"
    /\ Len(commits) < MaxCommits
    /\ \/ LET body == CommitBody(proc[p].newTreeSha, proc[p].parentSha)
          IN  /\ commits' = Append(commits, [tree |-> body.tree,
                                             parents |-> body.parents, by |-> p])
              /\ ref' = Len(commits) + 1
              /\ proc' = [proc EXCEPT ![p].newCommitSha = Len(commits) + 1,
                                      ![p].pc = "update"]
       \/ /\ proc' = [proc EXCEPT ![p] = RemoteFailure(p)]
          /\ UNCHANGED <<commits, ref>>
    /\ UNCHANGED <<blobs, prevVer, bumped>>

\* 5) create commit
CreateCommit(p) ==
    /\ proc[p].pc = "commit"
    /\ Len(commits) < MaxCommits
    /\ \/ LET body == CommitBody(proc[p].newTreeSha, proc[p].parentSha)
          IN  /\ commits' = Append(commits, [tree |-> body.tree,
                                             parents |-> body.parents, by |-> p])
              /\ proc' = [proc EXCEPT ![p].newCommitSha = Len(commits) + 1,
                                      ![p].pc = "update"]
       \/ /\ proc' = [proc EXCEPT ![p] = RemoteFailure(p)]
          /\ UNCHANGED commits
    /\ UNCHANGED <<ref, blobs, prevVer, bumped>>

\* What follows `return newCommitSha`: part_001's handler answers 200 without a
\* further await; part_000's function returns to its caller.
Returned(pr) ==
    IF pr.ver = 2 THEN [pr EXCEPT !.pc = "responded", !.status = 200]
    ELSE [pr EXCEPT !.pc = "returned"]

\* 6) update ref to point to new commit
UpdateRef(p) ==
    /\ proc[p].pc = "update"
    /\ LET body == UpdateRefBody(proc[p].newCommitSha)
       IN  \/ \* accepted, and the response arrives
              /\ RemoteAcceptsUpdate(body)
              /\ ref' = body.sha
              /\ proc' = MarkContended(p,
                   [proc EXCEPT ![p] = Returned([proc[p] EXCEPT !.moves = @ + 1])])
           \/ \* accepted by the remote, but the response is lost: fetch rejects
              /\ RemoteAcceptsUpdate(body)
              /\ ref' = body.sha
              /\ proc' = MarkContended(p,
                   [proc EXCEPT ![p] = [RemoteFailure(p) EXCEPT !.moves = @ + 1,
                                                                !.lost = TRUE]])
           \/ \* rejected: the head is no longer the parent (updateRes.ok is false)
              /\ ~RemoteAcceptsUpdate(body)
              /\ proc' = [proc EXCEPT ![p].pc = ThrowTo(p),
                                      ![p].conflictAt = @ \cup {proc[p].attempt}]
              /\ UNCHANGED ref
           \/ \* any other failure; the ref is not touched
              /\ proc' = [proc EXCEPT ![p] = RemoteFailure(p)]
              /\ UNCHANGED ref
    /\ UNCHANGED <<commits, blobs, prevVer, bumped>>

(****************** part_001: the retry loop and the handler ***************)
\* A retry loop without its bound.
RetryUnbounded(p) ==
    /\ proc[p].pc = "caught"
    /\ proc[p].attempt <= MaxAttempts
    /\ proc' = [proc EXCEPT ![p].delays = Append(@, RetryUnit * proc[p].attempt),
                            ![p].attempt = @ + 1,
                            ![p].pc = "readHead"]
    /\ UNCHANGED <<ref, commits, blobs, prevVer, bumped>>

\* A catch clause that retries a rejected ref update only.
RetryConflictOnly(p) ==
    /\ proc[p].pc = "caught"
    /\ IF proc[p].attempt < MaxAttempts /\ proc[p].attempt \in proc[p].conflictAt
       THEN proc' = [proc EXCEPT ![p].delays = Append(@, RetryUnit * proc[p].attempt),
                                 ![p].attempt = @ + 1,
                                 ![p].pc = "readHead"]
       ELSE proc' = [proc EXCEPT ![p].pc = "thrown"]
    /\ UNCHANGED <<ref, commits, blobs, prevVer, bumped>>

\* A retry that starts again from the read of content.json.
RetryFromManifest(p) ==
    /\ proc[p].pc = "caught"
    /\ IF proc[p].attempt < MaxAttempts
       THEN proc' = [proc EXCEPT ![p].delays = Append(@, RetryUnit * proc[p].attempt),
                                 ![p].attempt = @ + 1,
                                 ![p].pc = "manifest"]
       ELSE proc' = [proc EXCEPT ![p].pc = "thrown"]
    /\ UNCHANGED <<ref, commits, blobs, prevVer, bumped>>

\* catch (err) { if (attempt < 3) { await sleep(200 * attempt); continue; } throw err; }
Retry(p) ==
    /\ proc[p].pc = "caught"
    /\ IF proc[p].attempt < MaxAttempts
       THEN proc' = [proc EXCEPT ![p].delays = Append(@, RetryUnit * proc[p].attempt),
                                 ![p].attempt = @ + 1,
                                 ![p].pc = "readHead"]
       ELSE proc' = [proc EXCEPT ![p].pc = "thrown"]
    /\ UNCHANGED <<ref, commits, blobs, prevVer, bumped>>

\* The request of q has ended.
Ended(q) == proc[q].pc \in {"thrown", "returned", "responded", "crashed"}

\* The instants Date.now() can show to p: the clock does not run backwards, and
\* it has advanced since the end of every request that ended before p's began.
ClockShows(p) ==
    {t \in Times :
        \A q \in Procs \ {p} :
            proc[q].stamp # 0 =>
                IF q \in proc[p].after THEN t > proc[q].stamp ELSE t >= proc[q].stamp}

\* env.ADMIN_TOKEN
ADMIN_TOKEN == "secret"
\* request.headers.get("X-Admin-Token"), "" when the header is missing
Tokens == {"", "wrong", ADMIN_TOKEN}
\* request.headers.get("content-type") || "", as the list of its parts
ContentTypes == {<<>>, <<"application/json">>, <<"multipart/form-data", "boundary=x">>}
\* const maxBytes = 20 * 1024 * 1024
maxBytes == 20 * 1024 * 1024
\* file.size
Sizes == {1, maxBytes, maxBytes + 1}

\* contentType.includes(part)
Includes(contentType, part) == \E k \in 1..Len(contentType) : contentType[k] = part

\* The checks without the size limit.
RejectionNoSizeLimit(token, contentType, hasFile, size) ==
    IF token = "" \/ token # ADMIN_TOKEN THEN 401
    ELSE IF ~Includes(contentType, "multipart/form-data") THEN 400
    ELSE IF ~hasFile THEN 400
    ELSE 0

\* The status of the early return of onRequestPost for these inputs, 0 when the
\* request passes the checks.
Rejection(token, contentType, hasFile, size) ==
    IF token = "" \/ token # ADMIN_TOKEN THEN 401
    ELSE IF ~Includes(contentType, "multipart/form-data") THEN 400
    ELSE IF ~hasFile THEN 400
    ELSE IF size > maxBytes THEN 413
    ELSE 0

\* onRequestPost up to the existence check: the checks of the request and its
\* inputs.
Post(p) ==
    /\ proc[p].pc = "idle"
    /\ \E token \in Tokens, contentType \in ContentTypes, hasFile \in BOOLEAN,
          size \in Sizes :
         LET status == Rejection(token, contentType, hasFile, size)
         IN  IF status # 0
             THEN proc' = [proc EXCEPT ![p] =
                     [InitProc EXCEPT !.ver = 2, !.status = status,
                                      !.after = {q \in Procs : Ended(q)},
                                      !.pc = "responded"]]
             ELSE \E i \in Inputs, overwrite \in BOOLEAN :
                    LET dir == i[1]
                        name == i[2]
                        type == i[3]
                    IN  proc' = [proc EXCEPT ![p] =
                           [InitProc EXCEPT
                               !.ver = 2, !.dir = dir, !.finalName = name,
                               !.targetName = name, !.safePath = JoinPath(dir, name),
                               !.overwrite = overwrite, !.bytes = "x",
                               !.type = type,
                               !.after = {q \in Procs : Ended(q)},
                               !.dirAt = overwrite
                                           /\ IsDirectory(HeadTree, JoinPath(dir, name)),
                               !.pc = IF overwrite THEN "manifest" ELSE "check"]]
    /\ UNCHANGED <<ref, commits, blobs, prevVer, bumped>>

\* An existence check that renames whatever the answer is.
ExistenceCheckRenaming(p) ==
    /\ proc[p].pc = "check"
    /\ \E t \in ClockShows(p), r \in Rands :
         LET n == UniqueName(uniquePrefix(t, r), proc[p].finalName)
         IN  proc' = [proc EXCEPT ![p].targetName = n,
                                  ![p].safePath = JoinPath(proc[p].dir, n),
                                  ![p].stamp = t,
                                  ![p].pc = "manifest"]
    /\ UNCHANGED <<ref, commits, blobs, prevVer, bumped>>

\* overwrite=false: GET contents/<safePath>?ref=<branch>
ExistenceCheck(p) ==
    /\ proc[p].pc = "check"
    /\ \/ \* checkRes.ok
          /\ RemoteContentsOk(proc[p].safePath)
          /\ \E t \in ClockShows(p), r \in Rands :
               LET n == UniqueName(uniquePrefix(t, r), proc[p].finalName)
               IN  proc' = [proc EXCEPT ![p].targetName = n,
                                        ![p].safePath = JoinPath(proc[p].dir, n),
                                        ![p].stamp = t,
                                        ![p].dirAt = IsDirectory(HeadTree, proc[p].safePath),
                                        ![p].pc = "manifest"]
       \/ \* 404
          /\ ~RemoteContentsOk(proc[p].safePath)
          /\ proc' = [proc EXCEPT ![p].pc = "manifest"]
       \/ proc' = [proc EXCEPT ![p].pc = "responded", ![p].status = 502]
    /\ UNCHANGED <<ref, commits, blobs, prevVer, bumped>>

\* filesToCommit = { [safePath]: upload, [contentPath]: updated content.json }
FilesToCommit(pr, obj, at) ==
    ObjectLiteral(pr.safePath, Raw(pr.bytes),
                  contentPath,
                  UpdatedManifest(obj, Entry(pr.dir, pr.targetName,
                                             TypeOrNull(pr.type), at)))

\* GET contents/content.json, the new entry, the version bump and the change-set;
\* then commitFilesAtomically is entered.
ManifestRead(p) ==
    /\ proc[p].pc = "manifest"
    /\ \/ LET obj == IF HeadTree[contentPath] # NoBlob
                     THEN ParseManifest(HeadTree[contentPath])
                     ELSE DefaultManifest
          IN  IF FilesReadThrows(obj)
              THEN \* the TypeError leaves the handler
                   proc' = [proc EXCEPT ![p].seen = HeadTree[contentPath].kind,
                                        ![p].pc = "crashed"]
              ELSE proc' = [proc EXCEPT ![p].files = FilesToCommit(proc[p], obj, p),
                                        ![p].seen = HeadTree[contentPath].kind,
                                        ![p].attempt = 1,
                                        ![p].pc = "readHead"]
       \/ proc' = [proc EXCEPT ![p].pc = "responded", ![p].status = 502]
    /\ UNCHANGED <<ref, commits, blobs, prevVer, bumped>>

(************** part_000: commitFilesAtomically, called directly ***********)
\* The change-sets of the direct calls: an unrelated file, or an upload together
\* with a content.json the caller has updated.
ChangeSets000 ==
    {<<[path |-> OtherPath, content |-> Raw("y")]>>,
     ObjectLiteral("images/a.png", Raw("x"), contentPath,
                   Doc(<<"2", ".", "2">>, <<Entry("images", "a.png", "image/png", 9)>>))}

Call000(p) ==
    /\ proc[p].pc = "idle"
    /\ \E files \in ChangeSets000 :
         proc' = [proc EXCEPT ![p] =
            [InitProc EXCEPT !.ver = 1, !.files = files, !.attempt = 1,
                             !.pc = "readHead"]]
    /\ UNCHANGED <<ref, commits, blobs, prevVer, bumped>>

Next ==
    \E p \in Procs :
        \/ Post(p)
        \/ ExistenceCheck(p)
        \/ ManifestRead(p)
        \/ Call000(p)
        \/ ReadHead(p)
        \/ ReadBaseTree(p)
        \/ CreateBlob(p)
        \/ CreateTree(p)
        \/ CreateCommit(p)
        \/ UpdateRef(p)
        \/ Retry(p)

Spec == Init /\ [][Next]_vars

(************************ bumpVersion on its own ***************************)
\* The characters of the version texts tried.
VerChars == {"0", "1", "2", "9", ".", "a", "b", "c", " "}

\* contentObj.version: undefined or null, or a text (a number is given as its
\* text, String(v)).
VersionInputs == {Undefined} \cup UNION {[1..n -> VerChars] : n \in 0..MaxVerLen}

InitBump ==
    /\ ref = 1
    /\ commits = <<[tree |-> EmptyTree, parents |-> <<>>, by |-> 0]>>
    /\ blobs = {}
    /\ proc = [p \in Procs |-> InitProc]
    /\ prevVer \in VersionInputs
    /\ bumped = <<>>

\* contentObj.version = bumpVersion(contentObj.version)
Bump ==
    /\ bumped = <<>>
    /\ bumped' = bumpVersion(prevVer)
    /\ UNCHANGED <<ref, commits, blobs, proc, prevVer>>

NextBump == Bump

SpecBump == InitBump /\ [][NextBump]_vars

(************ part_000: the handlers that write through the contents API ***)
\* The texts of the remote's error answers, as the list of their phrases.
Messages == {<<"Invalid request", "sha wasn't supplied">>, <<"path", "already exists">>}

\* PUT /contents/<path> with { content, branch, sha? }: a new file is created
\* when nothing is at the path and no sha is given; an existing file is replaced
\* when the sha given is that of the file at the head.
RemoteContentsPutAccepts(path, body) ==
    /\ ~IsDirectory(HeadTree, path)
    /\ IF HeadTree[path] = NoBlob THEN ~body.hasSha
       ELSE body.hasSha /\ body.sha = HeadTree[path]

\* ...(sha ? { sha } : {})
ContentsBody(content, sha) ==
    [content |-> content, hasSha |-> sha # NoBlob, sha |-> sha]

\* A retry with a unique name after any failure of the first PUT.
ShouldRetryUniqueAlways(ok, overwrite, status, msg) == ~ok

\* !putRes.ok && !overwrite && (status === 409 || status === 422), and the
\* message includes "already exists"
ShouldRetryUnique(ok, overwrite, status, msg) ==
    /\ ~ok
    /\ ~overwrite
    /\ status \in {409, 422}
    /\ Includes(msg, "already exists")

\* The handler with the detached content.json update (ver 3) and the one without
\* it (ver 4), up to the first remote call.
PostContents(p) ==
    /\ proc[p].pc = "idle"
    /\ \E token \in Tokens, contentType \in ContentTypes, hasFile \in BOOLEAN,
          size \in Sizes :
         LET status == Rejection(token, contentType, hasFile, size)
         IN  IF status # 0
             THEN proc' = [proc EXCEPT ![p] =
                     [InitProc EXCEPT !.ver = 3, !.status = status, !.pc = "responded"]]
             ELSE \E i \in Inputs, overwrite \in BOOLEAN, ver \in {3, 4} :
                    proc' = [proc EXCEPT ![p] =
                       [InitProc EXCEPT
                           !.ver = ver, !.dir = i[1], !.finalName = i[2],
                           !.targetName = i[2], !.safePath = JoinPath(i[1], i[2]),
                           !.overwrite = overwrite, !.bytes = "x", !.type = i[3],
                           !.pc = IF overwrite THEN "getSha" ELSE "put1"]]
    /\ UNCHANGED <<ref, commits, blobs, prevVer, bumped>>

\* overwrite=true: GET contents/<safePath> for the sha of the file to replace
GetSha(p) ==
    /\ proc[p].pc = "getSha"
    /\ \/ \* 200
          /\ RemoteContentsOk(proc[p].safePath)
          /\ IF IsDirectory(HeadTree, proc[p].safePath)
             THEN proc' = [proc EXCEPT ![p].status = 400, ![p].pc = "responded"]
             ELSE proc' = [proc EXCEPT ![p].sha = HeadTree[proc[p].safePath],
                                       ![p].pc = "put1"]
       \/ \* 404 or any other status: goes on as for a new file
          proc' = [proc EXCEPT ![p].pc = "put1"]
       \/ \* fetch rejects
          proc' = [proc EXCEPT ![p].pc = "thrown"]
    /\ UNCHANGED <<ref, commits, blobs, prevVer, bumped>>

\* What the handler does with the answer of an artifact PUT: the one retry with a
\* unique name, or the response; in ver 3 a success starts the detached update.
\* (ver 4 prefixes safeOrig, which is finalName for the names drawn in Inputs.)
AfterPut(p, pr, first, ok, status, msg) ==
    IF first /\ ShouldRetryUnique(ok, pr.overwrite, status, msg)
    THEN \E t \in ClockShows(p), r \in Rands :
            LET n == UniqueName(uniquePrefix(t, r), pr.finalName)
            IN  proc' = [proc EXCEPT ![p] =
                    [pr EXCEPT !.targetName = n, !.safePath = JoinPath(pr.dir, n),
                               !.stamp = t, !.pc = "put2"]]
    ELSE IF ok
    THEN proc' = [proc EXCEPT ![p] =
            [pr EXCEPT !.status = 200, !.respPath = pr.safePath, !.pc = "responded",
                       !.mpc = IF pr.ver = 3 THEN "get" ELSE ""]]
    ELSE proc' = [proc EXCEPT ![p] = [pr EXCEPT !.status = status, !.pc = "responded"]]

\* One artifact PUT and what follows it.
PutArtifact(p, first) ==
    LET body == ContentsBody(Raw(proc[p].bytes), IF first THEN proc[p].sha ELSE NoBlob)
        sent(ok, status, msg) == [proc[p] EXCEPT !.puts = Append(@,
                        [path |-> proc[p].safePath, hasSha |-> body.hasSha,
                         sha |-> body.sha, ok |-> ok, status |-> status,
                         msg |-> msg])]
    IN  \/ \* accepted: the remote commits the file on the head
           /\ RemoteContentsPutAccepts(proc[p].safePath, body)
           /\ Len(commits) < MaxCommits
           /\ commits' = Append(commits,
                [tree |-> [HeadTree EXCEPT ![proc[p].safePath] = body.content],
                 parents |-> <<ref>>, by |-> p])
           /\ ref' = Len(commits) + 1
           /\ blobs' = blobs \cup {body.content}
           /\ \/ AfterPut(p, sent(TRUE, 201, <<>>), first, TRUE, 201, <<>>)
              \/ \* the response is lost: fetch rejects
                 proc' = [proc EXCEPT ![p] = [sent(TRUE, 201, <<>>) EXCEPT !.pc = "thrown"]]
        \/ \* rejected
           /\ ~RemoteContentsPutAccepts(proc[p].safePath, body)
           /\ \E status \in {409, 422}, msg \in Messages :
                AfterPut(p, sent(FALSE, status, msg), first, FALSE, status, msg)
           /\ UNCHANGED <<ref, commits, blobs>>
        \/ \* the remote fails
           /\ AfterPut(p, sent(FALSE, 500, <<>>), first, FALSE, 500, <<>>)
           /\ UNCHANGED <<ref, commits, blobs>>

\* PUT contents/<safePath> under the given name
Put1(p) ==
    /\ proc[p].pc = "put1"
    /\ PutArtifact(p, TRUE)
    /\ UNCHANGED <<prevVer, bumped>>

\* PUT contents/<safePath> under the unique name, without sha
Put2(p) ==
    /\ proc[p].pc = "put2"
    /\ PutArtifact(p, FALSE)
    /\ UNCHANGED <<prevVer, bumped>>

\* A failure in the detached update that also changes the response.
ManifestFailureAnswers(pr) == [pr EXCEPT !.mpc = "done", !.status = 502]

\* A failure in the detached update: logged, or not even that.
ManifestFailure(pr) == [pr EXCEPT !.mpc = "done"]

\* The detached update, first half: GET contents/content.json, the new entry and
\* the version bump.
ManifestGet(p) ==
    /\ proc[p].mpc = "get"
    /\ \/ \* 200 or 404
          LET obj == IF HeadTree[contentPath] # NoBlob
                     THEN ParseManifest(HeadTree[contentPath])
                     ELSE DefaultManifest
          IN  IF FilesReadThrows(obj)
              THEN proc' = [proc EXCEPT ![p] = ManifestFailure(proc[p])]
              ELSE proc' = [proc EXCEPT
                      ![p].contentSha = HeadTree[contentPath],
                      ![p].mseen = HeadTree[contentPath],
                      ![p].contentObj =
                          UpdatedManifest(obj, Entry(proc[p].dir, proc[p].targetName,
                                                     TypeOrNull(proc[p].type), p)),
                      ![p].mpc = "put"]
       \/ \* another status, or fetch rejects
          proc' = [proc EXCEPT ![p] = ManifestFailure(proc[p])]
    /\ UNCHANGED <<ref, commits, blobs, prevVer, bumped>>

\* The detached update, second half: PUT contents/content.json
ManifestPut(p) ==
    /\ proc[p].mpc = "put"
    /\ LET body == ContentsBody(proc[p].contentObj, proc[p].contentSha)
           sent(ok) == [proc[p] EXCEPT !.mpc = "done",
                                   !.mputs = Append(@, [hasSha |-> body.hasSha,
                                                        sha |-> body.sha, ok |-> ok])]
       IN  \/ /\ RemoteContentsPutAccepts(contentPath, body)
              /\ Len(commits) < MaxCommits
              /\ commits' = Append(commits,
                   [tree |-> [HeadTree EXCEPT ![contentPath] = body.content],
                    parents |-> <<ref>>, by |-> p])
              /\ ref' = Len(commits) + 1
              /\ blobs' = blobs \cup {body.content}
              /\ proc' = [proc EXCEPT ![p] = sent(TRUE)]
           \/ \* rejected (the file changed since the read), failed, or fetch rejects
              /\ proc' = [proc EXCEPT ![p] = ManifestFailure(sent(FALSE))]
              /\ UNCHANGED <<ref, commits, blobs>>
    /\ UNCHANGED <<prevVer, bumped>>

NextContents ==
    \E p \in Procs :
        \/ PostContents(p)
        \/ GetSha(p)
        \/ Put1(p)
        \/ Put2(p)
        \/ ManifestGet(p)
        \/ ManifestPut(p)

SpecContents == Init /\ [][NextContents]_vars

(***************************************************************************)
(*                              Properties                                 *)
(***************************************************************************)
\* The call of commitFilesAtomically made by p has ended.
CallEnded(p) ==
    /\ proc[p].attempt >= 1
    /\ proc[p].pc \in {"thrown", "returned", "responded"}

\* ... by returning the new commit identifier.
Succeeded(p) ==
    /\ proc[p].attempt >= 1
    /\ \/ proc[p].pc = "returned"
       \/ proc[p].pc = "responded" /\ proc[p].status = 200

\* The commits reachable from c in the commit objects cs.
RECURSIVE Ancestors(_, _)
Ancestors(cs, c) ==
    {c} \cup (IF cs[c].parents = <<>> THEN {} ELSE Ancestors(cs, cs[c].parents[1]))

\* The tree of commit c holds every path of the change-set with its content.
HoldsChangeSet(c, files) ==
    \A i \in 1..Len(files) : commits[c].tree[files[i].path] = files[i].content

\* C2 (as claimed): a call moves the ref at most once; a call that succeeded moved
\* it exactly once, to a commit holding every path of the change-set; a call that
\* failed did not move it, a lost ref-update response included.
C2_AllOrNothing ==
    \A p \in Procs :
        /\ proc[p].moves <= 1
        /\ Succeeded(p) =>
              /\ proc[p].moves = 1
              /\ HoldsChangeSet(proc[p].newCommitSha, proc[p].files)
        /\ (CallEnded(p) /\ ~Succeeded(p)) => proc[p].moves = 0

\* C3: the ref changes only by an UpdateRef step whose attempt read the ref's
\* present value as its parent, and it then points at that attempt's commit; an
\* UpdateRef step of an attempt whose parent is no longer the head fails and
\* leaves the ref alone; commit objects never change and every commit reachable
\* from the head stays reachable.
C3_CompareAndSwap ==
    [][/\ ref' # ref =>
            \E p \in Procs :
                /\ proc[p].pc = "update"
                /\ proc[p].parentSha = ref
                /\ ref' = proc[p].newCommitSha
                /\ commits[ref'].parents = <<ref>>
       /\ \A p \in Procs :
            (/\ proc[p].pc = "update"
             /\ proc'[p].pc # "update"
             /\ proc[p].parentSha # ref)
            => /\ ref' = ref
               /\ proc'[p].pc = ThrowTo(p)
               /\ proc'[p].moves = proc[p].moves
       /\ \A c \in 1..Len(commits) : commits'[c] = commits[c]
       /\ Ancestors(commits, ref) \subseteq Ancestors(commits', ref')]_vars

\* C3 witness: one caller's UpdateRef moved the ref to its commit, whose parent is
\* the head that caller had read, and another caller's UpdateRef was rejected
\* because the head had moved since its ReadHead.
C3_Witness ==
    \E p, q \in Procs :
        /\ p # q
        /\ proc[p].moves = 1
        /\ ref = proc[p].newCommitSha
        /\ commits[ref].parents = <<proc[p].parentSha>>
        /\ proc[q].conflictAt # {}
        /\ proc[q].staleAt # {}

\* C6 (as claimed): when another writer moved the head after ReadHead of attempt 1,
\* so that attempt 1 cannot land, and no remote call of attempt 2 fails, the call
\* succeeds on attempt 2: its commit's parent is the moved head and its tree holds
\* the change-set.
C6_RetryAfterConflictSucceeds ==
    \A p \in Procs :
        (/\ proc[p].ver = 2
         /\ 1 \in proc[p].staleAt
         /\ 1 \notin proc[p].failedAt
         /\ 2 \notin proc[p].failedAt
         /\ 2 \notin proc[p].staleAt
         /\ \/ proc[p].attempt > 2
            \/ proc[p].attempt = 2 /\ proc[p].pc \in {"caught", "thrown", "responded"})
        => /\ Succeeded(p)
           /\ proc[p].attempt = 2
           /\ commits[proc[p].newCommitSha].parents = <<proc[p].parentSha>>
           /\ HoldsChangeSet(proc[p].newCommitSha, proc[p].files)

\* The first attempt of the call of p is over.
FirstAttemptOver(p) ==
    /\ proc[p].attempt >= 1
    /\ \/ proc[p].attempt > 1
       \/ proc[p].pc \in {"caught", "thrown", "returned", "responded"}

\* C7 (as claimed): a call during which no other writer moved the head and no
\* remote call failed is done with its first attempt: it succeeded, having moved
\* the ref once, to its new commit.
C7_SucceedsUncontended ==
    \A p \in Procs :
        (/\ FirstAttemptOver(p)
         /\ proc[p].failedAt = {}
         /\ proc[p].conflictAt = {}
         /\ proc[p].contendedAt = {})
        => /\ Succeeded(p)
           /\ proc[p].attempt = 1
           /\ proc[p].moves = 1
           /\ proc[p].newCommitSha \in Ancestors(commits, ref)

\* C8: in every commit a caller created, each path outside the caller's change-set
\* has the blob it has in the tree of the commit's parent, and each path of the
\* change-set has the blob created for it.
C8_TreeInheritance ==
    \A c \in 2..Len(commits) :
        LET files == proc[commits[c].by].files
            parent == commits[c].parents[1]
        IN  /\ commits[c].parents # <<>>
            /\ \A path \in AllPaths \ KeysOf(files) :
                   commits[c].tree[path] = commits[parent].tree[path]
            /\ HoldsChangeSet(c, files)

\* C8 witness: a commit was created whose parent's tree holds a file that is not
\* in the change-set, and the change-set replaced or added another path.
C8_Witness ==
    \E c \in 2..Len(commits) :
        LET files == proc[commits[c].by].files
            parent == commits[c].parents[1]
        IN  /\ \E path \in AllPaths \ KeysOf(files) :
                   commits[parent].tree[path] # NoBlob
            /\ \E path \in KeysOf(files) :
                   commits[c].tree[path] # commits[parent].tree[path]

\* One step of the call of p.
CallStep(p) ==
    \/ ReadHead(p) \/ ReadBaseTree(p) \/ CreateBlob(p) \/ CreateTree(p)
    \/ CreateCommit(p) \/ UpdateRef(p) \/ Retry(p)

\* What is left of the call of p: the attempts not yet started, then the steps
\* of the current attempt.
Rank(pr) ==
    IF pr.attempt = 0 THEN 0
    ELSE (MaxAttempts - pr.attempt) * 20
           + (CASE pr.pc = "readHead" -> 10
                [] pr.pc = "readTree" -> 9
                [] pr.pc = "blobs" -> 8 - pr.nblobs
                [] pr.pc = "tree" -> 5
                [] pr.pc = "commit" -> 4
                [] pr.pc = "update" -> 3
                [] pr.pc = "caught" -> 2
                [] OTHER -> 0)

\* C9: a call reads the head at most 3 times and never starts a fourth attempt;
\* the delay before each further attempt is larger than the one before it (none
\* before the first); and the call terminates: while it has not ended one of its
\* steps can be taken, and every step takes it nearer to its end.
C9_BoundedRetry ==
    /\ [](\A p \in Procs :
            /\ proc[p].reads <= MaxAttempts
            /\ proc[p].attempt <= MaxAttempts
            /\ proc[p].reads \in {proc[p].attempt, proc[p].attempt - 1}
            /\ proc[p].attempt >= 1 => Len(proc[p].delays) = proc[p].attempt - 1
            /\ \A k \in 1..Len(proc[p].delays) :
                   proc[p].delays[k] > (IF k = 1 THEN 0 ELSE proc[p].delays[k - 1])
            /\ InPipeline(p) => ENABLED CallStep(p))
    /\ [][\A p \in Procs :
            proc[p].attempt >= 1 =>
                /\ Rank(proc'[p]) <= Rank(proc[p])
                /\ (proc'[p].pc # proc[p].pc \/ proc'[p].nblobs # proc[p].nblobs)
                     => Rank(proc'[p]) < Rank(proc[p])]_vars

\* C9 witness: a call ended after reading the head 3 times, with the delays 200
\* and 400 before its second and third attempt.
C9_Witness ==
    \E p \in Procs :
        /\ CallEnded(p)
        /\ proc[p].reads = 3
        /\ proc[p].delays = <<200, 400>>

AttemptOver(p, k) ==
    /\ proc[p].attempt >= k
    /\ \/ proc[p].attempt > k
       \/ proc[p].pc \in {"caught", "thrown", "returned", "responded"}

\* The attempts of p that met a failure of a remote call or a rejected ref update.
FailedAttempts(p) == proc[p].failedAt \cup proc[p].conflictAt

\* C11 (as claimed): when a remote call of the first attempt of an upload failed
\* (transient or conflict) and the second attempt met no such failure, the call
\* succeeded on the second attempt and the caller got the success response; and
\* an error reaches the caller only after all 3 attempts have been made.
C11_FailuresAbsorbed ==
    \A p \in Procs :
        /\ (/\ proc[p].ver = 2
            /\ 1 \in FailedAttempts(p)
            /\ 2 \notin FailedAttempts(p)
            /\ AttemptOver(p, 2))
           => /\ Succeeded(p)
              /\ proc[p].attempt = 2
              /\ proc[p].status = 200
        /\ (proc[p].ver = 2 /\ proc[p].pc = "thrown") => proc[p].attempt = MaxAttempts

\* C12 (as claimed): an upload whose 3 attempts all failed at a remote call has
\* ended with an error response (a status that is no success), not with an
\* exception that leaves the handler.
C12_StructuredErrorResponse ==
    \A p \in Procs :
        (/\ proc[p].ver = 2
         /\ proc[p].failedAt = 1..MaxAttempts
         /\ AttemptOver(p, MaxAttempts))
        => /\ proc[p].pc = "responded"
           /\ proc[p].status \notin {0, 200}

\* The caller whose step this is (the ref's move marks other callers, but it does
\* not move them).
Acts(p) == proc'[p].pc # proc[p].pc \/ proc'[p].nblobs # proc[p].nblobs

\* C13: a step of a caller that is not a ref update accepted by the remote (a
\* read, a blob, tree or commit creation, a failure of any of them, a rejected or
\* failed ref update, the catch clause) leaves the ref, the commits reachable
\* from it and their trees as they are; and the commits of a caller that has not
\* moved the ref are reachable from no ref. Stopping a caller at any step is the
\* same as its taking no further step.
C13_FailedPipelineKeepsRef ==
    /\ [](\A c \in 2..Len(commits) :
            proc[commits[c].by].moves = 0 => c \notin Ancestors(commits, ref))
    /\ [][\A p \in Procs :
            (Acts(p) /\ proc'[p].moves = proc[p].moves)
            => /\ ref' = ref
               /\ Ancestors(commits', ref') = Ancestors(commits, ref)
               /\ \A c \in Ancestors(commits, ref) : commits'[c] = commits[c]
               /\ blobs \subseteq blobs']_vars

\* C13 witness: a call failed after it had created its blobs and its commit; the
\* commit is not reachable from the ref, which is where the call's ReadHead found
\* it.
C13_Witness ==
    \E p \in Procs :
        /\ proc[p].pc = "thrown"
        /\ proc[p].moves = 0
        /\ proc[p].newCommitSha # 0
        /\ proc[p].newCommitSha \notin Ancestors(commits, ref)
        /\ ref = proc[p].parentSha
        /\ \A i \in 1..Len(proc[p].files) : proc[p].files[i].content \in blobs

\* C14 (as claimed): when two uploads with different final paths have both read
\* the same head in their first attempt and no remote call of either failed,
\* then, both first attempts being over, exactly one of them has moved the ref to
\* its commit on that head and the other has met a conflict; and when both
\* uploads have succeeded the head's tree holds both artifacts.
C14_DisjointUploadsSerialized ==
    \A p, q \in Procs :
        (/\ p # q
         /\ proc[p].ver = 2 /\ proc[q].ver = 2
         /\ proc[p].safePath # proc[q].safePath
         /\ proc[p].attempt = 1 /\ proc[q].attempt = 1
         /\ AttemptOver(p, 1) /\ AttemptOver(q, 1)
         /\ proc[p].parentSha = proc[q].parentSha
         /\ proc[p].parentSha # 0
         /\ proc[p].failedAt = {} /\ proc[q].failedAt = {})
        => /\ \/ proc[p].moves = 1 /\ 1 \in proc[q].conflictAt
              \/ proc[q].moves = 1 /\ 1 \in proc[p].conflictAt
           /\ (Succeeded(p) /\ Succeeded(q))
                => /\ HeadTree[proc[p].safePath] = Raw(proc[p].bytes)
                   /\ HeadTree[proc[q].safePath] = Raw(proc[q].bytes)

\* The path the request of p asked for.
candidatePath(p) == JoinPath(proc[p].dir, proc[p].finalName)

\* The existence check of p has renamed the upload.
Renamed(p) == proc[p].ver = 2 /\ proc[p].stamp # 0

\* C15: with overwrite=false, an existence check that finds an object at the
\* candidate path ends with the final name <uniquePrefix>-<filename> and the final
\* path <dir>/<final name> (the final name alone at the root), which is not the
\* candidate path; and of two requests for the same directory and file name that
\* were both renamed, the second made after the first had ended, the later one has
\* a final path that differs from the candidate path and from the earlier one's.
C15_CollisionAvoidance ==
    /\ [](\A p \in Procs :
            Renamed(p) =>
                /\ ~proc[p].overwrite
                /\ \E u \in Prefixes : proc[p].targetName = u \o "-" \o proc[p].finalName
                /\ proc[p].safePath = (IF proc[p].dir = "" THEN proc[p].targetName
                                       ELSE proc[p].dir \o "/" \o proc[p].targetName)
                /\ proc[p].safePath # candidatePath(p)
                /\ \A q \in proc[p].after :
                       (Renamed(q) /\ candidatePath(q) = candidatePath(p))
                       => proc[p].safePath # proc[q].safePath)
    /\ [][\A p \in Procs :
            (/\ proc[p].pc = "check"
             /\ proc'[p].pc = "manifest"
             /\ HeadTree[proc[p].safePath] # NoBlob)
            => /\ proc'[p].stamp # 0
               /\ proc'[p].safePath # proc[p].safePath]_vars

\* C15 witness: two requests for the same directory and file name, the second
\* made after the first had ended, were both renamed because the candidate path
\* holds a file, and their final paths differ.
C15_Witness ==
    \E p, q \in Procs :
        /\ q \in proc[p].after
        /\ Renamed(p) /\ Renamed(q)
        /\ candidatePath(p) = candidatePath(q)
        /\ HeadTree[candidatePath(p)] # NoBlob
        /\ proc[p].safePath # proc[q].safePath

\* C16 (as claimed): an upload whose candidate path was a directory at the head
\* is answered 400 when it has ended, gets no unique name, and creates no blob.
C16_DirectoryRejected ==
    \A p \in Procs :
        (proc[p].ver = 2 /\ proc[p].dirAt)
        => /\ proc[p].targetName = proc[p].finalName
           /\ proc[p].attempt = 0
           /\ Ended(p) => (proc[p].pc = "responded" /\ proc[p].status = 400)

\* C17 (as claimed): an upload that found content.json absent, or present with a
\* content that is not an object with a files list, has gone on with the default
\* manifest: it has not ended with an exception caused by that content, and its
\* change-set holds the default manifest with the new entry and the bumped
\* version.
C17_ManifestDecodeNeverFails ==
    \A p \in Procs :
        (proc[p].ver = 2 /\ proc[p].seen \in {"none", "raw", "null"})
        => /\ proc[p].pc # "crashed"
           /\ \E i \in 1..Len(proc[p].files) :
                /\ proc[p].files[i].path = contentPath
                /\ proc[p].files[i].content =
                     UpdatedManifest(DefaultManifest,
                                     Entry(proc[p].dir, proc[p].targetName,
                                           TypeOrNull(proc[p].type), p))

\* A natural number written in decimal without leading zeros.
Canonical(x) == AllDigits(x) /\ (Len(x) = 1 \/ x[1] # "0")

\* out is "<major>.<minor + 1>".
IsBumpOf(out, major, minor) ==
    \E d \in 1..Len(out) :
        /\ out[d] = "."
        /\ Canonical(SubSeq(out, 1, d - 1))
        /\ Canonical(SubSeq(out, d + 1, Len(out)))
        /\ NumberOf(SubSeq(out, 1, d - 1)) = major
        /\ NumberOf(SubSeq(out, d + 1, Len(out))) = minor + 1

\* s is <digits>.<digits> with the dot at position d.
SplitsAt(s, d) ==
    /\ s[d] = "."
    /\ AllDigits(SubSeq(s, 1, d - 1))
    /\ AllDigits(SubSeq(s, d + 1, Len(s)))

\* C18: bumpVersion(v) is "<major>.<minor+1>" when the trimmed text of v is
\* <digits> (the minor counting as 0) or <digits>.<digits>, and "1.1" for
\* undefined, null and every other text; "1" gives "1.1", "1.0" gives "1.1",
\* "2.1" gives "2.2", "abc" gives "1.1", and the default manifest's version gives
\* "1.1".
C18_BumpVersion ==
    /\ bumped # <<>> =>
         LET s == Trim(prevVer)
         IN  IF prevVer = Undefined THEN bumped = <<"1", ".", "1">>
             ELSE IF AllDigits(s) THEN IsBumpOf(bumped, NumberOf(s), 0)
             ELSE IF \E d \in 1..Len(s) : SplitsAt(s, d)
                  THEN \A d \in 1..Len(s) :
                         SplitsAt(s, d) =>
                           IsBumpOf(bumped, NumberOf(SubSeq(s, 1, d - 1)),
                                    NumberOf(SubSeq(s, d + 1, Len(s))))
             ELSE bumped = <<"1", ".", "1">>
    /\ bumpVersion(<<"1">>) = <<"1", ".", "1">>
    /\ bumpVersion(<<"1", ".", "0">>) = <<"1", ".", "1">>
    /\ bumpVersion(<<"2", ".", "1">>) = <<"2", ".", "2">>
    /\ bumpVersion(<<"a", "b", "c">>) = <<"1", ".", "1">>
    /\ bumpVersion(DefaultManifest.version) = <<"1", ".", "1">>

\* C18 witness: bumpVersion was given "1.9" and returned "1.10".
C18_Witness ==
    /\ prevVer = <<"1", ".", "9">>
    /\ bumped = <<"1", ".", "1", "0">>

\* The content.json of the change-set of p.
ManifestOf(p) ==
    proc[p].files[CHOOSE i \in 1..Len(proc[p].files) :
                      proc[p].files[i].path = contentPath].content

\* C20: in every change-set the upload handler hands to commitFilesAtomically,
\* and so in every commit made from one, the front entry of files has the final
\* (possibly renamed) file name as name, "/" + directory ("/" at the root) as dir,
\* "/" + the artifact path of the same change-set as path, the description "" and
\* the declared content type, or null when none was declared, as type.
C20_EntryNamesArtifact ==
    /\ \A p \in Procs :
        (proc[p].ver = 2 /\ proc[p].attempt >= 1)
        => /\ contentPath \in KeysOf(proc[p].files)
           /\ proc[p].safePath \in KeysOf(proc[p].files)
           /\ ManifestOf(p).kind = "json"
           /\ Len(ManifestOf(p).files) >= 1
           /\ LET e == ManifestOf(p).files[1]
              IN  /\ e.name = proc[p].targetName
                  /\ e.dir = (IF proc[p].dir = "" THEN "/" ELSE "/" \o proc[p].dir)
                  /\ e.path = "/" \o proc[p].safePath
                  /\ e.description = ""
                  /\ e.type = (IF proc[p].type = "" THEN "null" ELSE proc[p].type)
    /\ \A c \in 2..Len(commits) :
        proc[commits[c].by].ver = 2 => HoldsChangeSet(c, proc[commits[c].by].files)

\* C20 witness: the handler has built the change-set of an upload into a
\* directory that it had renamed, and the change-set of an upload that declared
\* no content type.
C20_Witness ==
    /\ \E p \in Procs :
        /\ Renamed(p)
        /\ proc[p].attempt >= 1
        /\ proc[p].dir = "images"
        /\ ManifestOf(p).files[1].name = proc[p].targetName
        /\ ManifestOf(p).files[1].path = "/" \o proc[p].safePath
    /\ \E q \in Procs :
        /\ proc[q].ver = 2
        /\ proc[q].attempt >= 1
        /\ proc[q].type = ""
        /\ ManifestOf(q).files[1].type = "null"

\* C21 (as claimed): two uploads of the same bytes to the same path with
\* overwrite=true, the second made after the first had ended, both having
\* entered the pipeline and met no failure of a remote call, have produced two
\* distinct commits on the branch whose trees hold the same blob at that path.
C21_SameBytesSameBlob ==
    \A p, q \in Procs :
        (/\ q \in proc[p].after
         /\ proc[p].ver = 2 /\ proc[q].ver = 2
         /\ proc[p].overwrite /\ proc[q].overwrite
         /\ proc[p].safePath = proc[q].safePath
         /\ proc[p].bytes = proc[q].bytes
         /\ proc[p].attempt >= 1 /\ proc[q].attempt >= 1
         /\ Ended(p) /\ Ended(q)
         /\ proc[p].failedAt = {} /\ proc[q].failedAt = {})
        => \E c, d \in Ancestors(commits, ref) :
               /\ c # d
               /\ commits[c].by = q /\ commits[d].by = p
               /\ commits[c].tree[proc[p].safePath] = Raw(proc[p].bytes)
               /\ commits[d].tree[proc[p].safePath] = commits[c].tree[proc[p].safePath]

\* p is between its ReadHead and the end of the same attempt.
HoldsHead(pr) == pr.pc \in {"readTree", "blobs", "tree", "commit", "update"}

\* C22: the steps of an attempt are taken in the order ReadHead, ReadBaseTree,
\* CreateBlobs (one blob per file of the change-set), CreateTree, CreateCommit,
\* UpdateRef, each only after the one before it in the same attempt; the parent
\* read by ReadHead is the head at that moment and is kept until the attempt is
\* over; every commit is created by a CreateCommit step and has exactly one
\* parent, the commit read by ReadHead of the same attempt; a call succeeds only
\* by its UpdateRef.
C22_PipelineOrder ==
    [][/\ \A p \in Procs :
            /\ (proc'[p].pc = "readTree" /\ proc[p].pc # "readTree")
                 => /\ proc[p].pc = "readHead"
                    /\ proc'[p].parentSha = ref
            /\ (proc'[p].pc = "blobs" /\ proc[p].pc # "blobs")
                 => /\ proc[p].pc = "readTree"
                    /\ proc'[p].baseTree = commits[proc[p].parentSha].tree
                    /\ proc'[p].nblobs = 0
            /\ (proc'[p].pc = "tree" /\ proc[p].pc # "tree")
                 => /\ proc[p].pc = "blobs"
                    /\ proc'[p].nblobs = Len(proc[p].files)
                    /\ \A i \in 1..Len(proc[p].files) : proc[p].files[i].content \in blobs'
            /\ (proc'[p].pc = "commit" /\ proc[p].pc # "commit")
                 => proc[p].pc = "tree"
            /\ (proc'[p].pc = "update" /\ proc[p].pc # "update")
                 => /\ proc[p].pc = "commit"
                    /\ Len(commits') = Len(commits) + 1
                    /\ proc'[p].newCommitSha = Len(commits')
                    /\ commits'[Len(commits')].parents = <<proc[p].parentSha>>
                    /\ commits'[Len(commits')].tree = proc[p].newTreeSha
            /\ (proc'[p].moves # proc[p].moves \/ (Succeeded(p)' /\ ~Succeeded(p)))
                 => /\ proc[p].pc = "update"
                    /\ ref' = proc[p].newCommitSha
            /\ (HoldsHead(proc[p]) /\ HoldsHead(proc'[p]))
                 => /\ proc'[p].parentSha = proc[p].parentSha
                    /\ proc'[p].attempt = proc[p].attempt
       /\ Len(commits') # Len(commits)
            => \E p \in Procs : proc[p].pc = "commit" /\ proc'[p].pc = "update"]_vars

\* C22 witness: a call has gone through all six steps: it returned, the ref is at
\* its commit, whose only parent is the head its ReadHead read; and another call
\* is past the blobs of its second attempt.
C22_Witness ==
    /\ \E p \in Procs :
        /\ Succeeded(p)
        /\ proc[p].nblobs = Len(proc[p].files)
        /\ ref = proc[p].newCommitSha
        /\ commits[ref].parents = <<proc[p].parentSha>>
    /\ \E q \in Procs :
        /\ proc[q].attempt = 2
        /\ proc[q].pc = "tree"

\* C23 (as claimed): a caller that has created its blobs sends a tree request
\* that names the base tree read in the same attempt and lists one entry per path
\* of the change-set, with the blob created for it and the mode 100644, and no
\* other path.
C23_TreeRequestContent ==
    \A p \in Procs :
        proc[p].pc = "tree" =>
            LET req == TreeRequestOf(p)
            IN  /\ ~req.thrown
                /\ req.hasBase
                /\ req.base_tree = proc[p].baseTree
                /\ Len(req.tree) = Len(proc[p].files)
                /\ \A i \in 1..Len(req.tree) :
                       /\ req.tree[i].path = proc[p].files[i].path
                       /\ req.tree[i].sha = proc[p].files[i].content
                       /\ req.tree[i].sha \in blobs
                       /\ req.tree[i].mode = "100644"
                /\ Cardinality(KeysOf(req.tree)) = Len(req.tree)

\* C24: with overwrite=true no existence read is made and the final path is the
\* candidate path, dir/filename or filename at the root; with overwrite=false an
\* existence check answered 404 leaves the final path at the candidate path; in
\* both cases the name gets no unique prefix.
C24_ResolutionWithoutCollision ==
    /\ [](\A p \in Procs :
            (proc[p].ver = 2 /\ proc[p].overwrite) =>
                /\ proc[p].pc # "check"
                /\ proc[p].stamp = 0
                /\ proc[p].targetName = proc[p].finalName
                /\ proc[p].safePath = (IF proc[p].dir = "" THEN proc[p].finalName
                                       ELSE proc[p].dir \o "/" \o proc[p].finalName))
    /\ [][\A p \in Procs :
            (/\ proc[p].pc = "check"
             /\ proc'[p].pc = "manifest"
             /\ ~RemoteContentsOk(proc[p].safePath))
            => /\ proc'[p].stamp = 0
               /\ proc'[p].targetName = proc[p].finalName
               /\ proc'[p].safePath = (IF proc[p].dir = "" THEN proc[p].finalName
                                       ELSE proc[p].dir \o "/" \o proc[p].finalName)]_vars

\* C24 witness: an overwrite=true upload into a directory has built its
\* change-set for the candidate path; and an overwrite=false upload whose check
\* found nothing has built its change-set for the candidate path.
C24_Witness ==
    /\ \E p \in Procs :
        /\ proc[p].ver = 2 /\ proc[p].overwrite
        /\ proc[p].attempt >= 1
        /\ proc[p].safePath = "images/a.png"
        /\ proc[p].safePath \in KeysOf(proc[p].files)
    /\ \E q \in Procs :
        /\ proc[q].ver = 2 /\ ~proc[q].overwrite
        /\ proc[q].attempt >= 1
        /\ proc[q].safePath = candidatePath(q)
        /\ proc[q].safePath \in KeysOf(proc[q].files)

\* C25 (as claimed): a commit made by an upload with overwrite=false does not
\* change the blob of a path that exists in its parent's tree; and two concurrent
\* uploads with overwrite=false of the same directory and file name, whose
\* existence checks both found nothing, commit under two different paths, and
\* when both have ended the head holds both contents.
C25_NoOverwriteNeverReplaces ==
    /\ \A c \in 2..Len(commits) :
        LET pr == proc[commits[c].by]
        IN  (pr.ver = 2 /\ ~pr.overwrite)
            => commits[commits[c].parents[1]].tree[pr.safePath] = NoBlob
    /\ \A p, q \in Procs :
        (/\ p # q
         /\ proc[p].ver = 2 /\ proc[q].ver = 2
         /\ ~proc[p].overwrite /\ ~proc[q].overwrite
         /\ candidatePath(p) = candidatePath(q)
         /\ p \notin proc[q].after /\ q \notin proc[p].after
         /\ proc[p].stamp = 0 /\ proc[q].stamp = 0
         /\ proc[p].attempt >= 1 /\ proc[q].attempt >= 1)
        => /\ proc[p].safePath # proc[q].safePath
           /\ (Ended(p) /\ Ended(q))
                => /\ HeadTree[proc[p].safePath] = Raw(proc[p].bytes)
                   /\ HeadTree[proc[q].safePath] = Raw(proc[q].bytes)

\* C26: in a request of the upload handler the existence check and the read of
\* content.json are each made at most once, before the first attempt, and never
\* again; from the first attempt on, the final path and the change-set (the
\* artifact and the content.json computed from that one read) stay as they are,
\* whatever happens to the head, and the blobs an attempt creates are those of
\* this change-set.
C26_ChangeSetFixed ==
    /\ [](\A p \in Procs :
            (proc[p].ver = 2 /\ proc[p].attempt >= 1) =>
                /\ proc[p].pc \notin {"idle", "check", "manifest"}
                /\ Len(proc[p].files) = 2
                /\ KeysOf(proc[p].files) = {proc[p].safePath, contentPath}
                /\ proc[p].files[1].content = Raw(proc[p].bytes))
    /\ [][\A p \in Procs :
            /\ proc'[p].pc = "check" => proc[p].pc \in {"idle", "check"}
            /\ proc'[p].pc = "manifest" => proc[p].pc \in {"idle", "check", "manifest"}
            /\ (proc[p].ver = 2 /\ proc[p].attempt >= 1)
                 => /\ proc'[p].files = proc[p].files
                    /\ proc'[p].safePath = proc[p].safePath
                    /\ proc'[p].targetName = proc[p].targetName
                    /\ proc'[p].seen = proc[p].seen
            /\ (proc[p].ver = 2 /\ proc'[p].nblobs = proc[p].nblobs + 1)
                 => blobs' = blobs \cup {proc[p].files[proc[p].nblobs + 1].content}]_vars

\* C26 witness: an upload is in its third attempt and has created the blobs of
\* its change-set again, while the content.json at the head is no longer the one
\* its change-set was computed from.
C26_Witness ==
    \E p \in Procs :
        /\ proc[p].ver = 2
        /\ proc[p].attempt = 3
        /\ proc[p].pc = "tree"
        /\ proc[p].seen = "none"
        /\ HeadTree[contentPath] # NoBlob
        /\ ManifestOf(p).files = <<Entry(proc[p].dir, proc[p].targetName,
                                         TypeOrNull(proc[p].type), p)>>

\* The statuses of the rejections before the pipeline.
RejectionStatuses == {400, 401, 413, 502}

\* C27: a request with a missing or wrong admin token is answered 401, one that
\* is not multipart or has no file 400, one with a file of more than 20 MiB 413,
\* and one whose existence check or manifest read failed 502; a request answered
\* so has created no blob and no commit and has not moved the ref, and the step
\* that answers it leaves the remote as it is.
C27_RejectionsWriteNothing ==
    /\ []((\A p \in Procs : proc[p].pc = "idle") =>
            \A token \in Tokens, contentType \in ContentTypes, hasFile \in BOOLEAN,
               size \in Sizes :
                LET status == Rejection(token, contentType, hasFile, size)
                    tokenOk == token = "secret"
                    multipart == contentType = <<"multipart/form-data", "boundary=x">>
                IN  /\ ~tokenOk => status = 401
                    /\ (tokenOk /\ (~multipart \/ ~hasFile)) => status = 400
                    /\ (tokenOk /\ multipart /\ hasFile /\ size > 20971520)
                         => status = 413
                    /\ (tokenOk /\ multipart /\ hasFile /\ size <= 20971520)
                         => status = 0)
    /\ [](\A p \in Procs :
            (/\ proc[p].ver = 2
             /\ proc[p].pc = "responded"
             /\ proc[p].status \in RejectionStatuses)
            => /\ proc[p].attempt = 0
               /\ proc[p].nblobs = 0
               /\ proc[p].moves = 0
               /\ \A c \in 1..Len(commits) : commits[c].by # p)
    /\ [][\A p \in Procs :
            (/\ proc[p].ver \in {0, 2}
             /\ proc[p].pc # "responded"
             /\ proc'[p].pc = "responded"
             /\ proc'[p].status # 200)
            => /\ proc'[p].status \in RejectionStatuses
               /\ proc[p].pc \in {"idle", "check", "manifest"}
               /\ ref' = ref /\ commits' = commits /\ blobs' = blobs]_vars

\* C27 witness: one request was answered 413 and another 502 after its read of
\* content.json failed, and the remote holds no blob.
C27_Witness ==
    \E p, q \in Procs :
        /\ proc[p].pc = "responded" /\ proc[p].status = 413
        /\ proc[q].pc = "responded" /\ proc[q].status = 502
        /\ blobs = {}
        /\ Len(commits) = 1


\* C28: in the handlers that write the artifact with a contents PUT, a request
\* issues at most two artifact PUTs; the second one is issued only when
\* overwrite=false and the first failed with status 409 or 422 and a message
\* containing "already exists"; it goes to a uniquely prefixed name, different
\* from the first, and carries no sha; and the path of a 200 response is the path
\* of the last PUT, which succeeded.
C28_SingleUniqueNameRetry ==
    \A p \in Procs :
        LET pr == proc[p]
            n == Len(pr.puts)
        IN  /\ n <= 2
            /\ (pr.pc = "put2") => n = 1
            /\ (n = 2 \/ pr.pc = "put2") =>
                  /\ ~pr.overwrite
                  /\ ~pr.puts[1].ok
                  /\ pr.puts[1].status \in {409, 422}
                  /\ Includes(pr.puts[1].msg, "already exists")
                  /\ pr.safePath \in {JoinPath(pr.dir, UniqueName(x, pr.finalName)) :
                                         x \in Prefixes}
                  /\ pr.safePath # pr.puts[1].path
            /\ n = 2 => /\ ~pr.puts[2].hasSha
                        /\ pr.puts[2].path = pr.safePath
            /\ (pr.ver \in {3, 4} /\ pr.pc = "responded" /\ pr.status = 200) =>
                  /\ n >= 1
                  /\ pr.puts[n].ok
                  /\ pr.respPath = pr.puts[n].path

\* A request whose first PUT was refused as "already exists", whose second PUT
\* succeeded, and which answered 200 with the unique path, where its bytes are.
C28_Witness ==
    \E p \in Procs :
        /\ Len(proc[p].puts) = 2
        /\ proc[p].pc = "responded"
        /\ proc[p].status = 200
        /\ proc[p].respPath = proc[p].puts[2].path
        /\ \E c \in 1..Len(commits) :
              /\ commits[c].by = p
              /\ commits[c].tree[proc[p].respPath] = Raw(proc[p].bytes)

\* What one step may do to the caller p once its detached content.json update
\* has started.
DetachedStep(p) ==
    LET a == proc[p]
        b == proc'[p]
    IN  /\ b.mpc # "" => b.pc = "responded" /\ b.status = 200
        /\ a.mpc # "" => b.pc = a.pc /\ b.status = a.status /\ b.respPath = a.respPath
        /\ (a.mpc # "" /\ a.mpc # b.mpc) =>
              /\ Ancestors(commits, ref) \subseteq Ancestors(commits', ref')
              /\ commits'[ref'].tree[a.respPath] = commits[ref].tree[a.respPath]
        /\ Len(b.mputs) > Len(a.mputs) =>
              LET m == b.mputs[Len(b.mputs)]
              IN  /\ m.hasSha = (a.mseen # NoBlob)
                  /\ m.hasSha => m.sha = a.mseen

\* C29: in the handler with the detached content.json update, the update starts
\* only after the artifact PUT has decided the response (200); no step of the
\* update, whether it succeeds, is refused or fails, changes the response or
\* removes a commit or the artifact from the head; and the content.json PUT
\* carries the sha read by the update's own GET exactly when the file existed.
C29_ManifestUpdateDetached == [][\A p \in Procs : DetachedStep(p)]_vars

\* A request answered 200 whose content.json PUT, sent with the sha it had read,
\* was refused or failed, and whose artifact is still at the head.
C29_Witness ==
    \E p \in Procs :
        /\ proc[p].ver = 3
        /\ proc[p].pc = "responded"
        /\ proc[p].status = 200
        /\ proc[p].mpc = "done"
        /\ Len(proc[p].mputs) = 1
        /\ proc[p].mputs[1].hasSha
        /\ ~proc[p].mputs[1].ok
        /\ HeadTree[proc[p].respPath] = Raw(proc[p].bytes)

====
